---- MODULE Spec2Model ----
(***************************************************************************)
(* Model of the terrain site's two algorithmic cores:                      *)
(*   - the elevation fetch / cache pipeline (lib/terrain-api: fetchTerrain, *)
(*     the three providers, the localStorage cache);                        *)
(*   - the scroll-driven camera (components/scene/ScrollDrivenCamera).      *)
(*                                                                         *)
(* Units.  Latitudes and longitudes are integers counting 1e-5 degrees.    *)
(* Time is Date.now() in milliseconds.  A progress value is the exact      *)
(* fraction <<num, den>>.  Scroll and keyframe offsets count tenths.       *)
(***************************************************************************)
EXTENDS Integers, Sequences, FiniteSets, TLC

VARIABLES
    now,        \* Date.now(), ms
    store,      \* localStorage: a function from the keys present to values
    storage,    \* whether localStorage works: "ok", "unavailable" or "full"
    calls,      \* fetchTerrain invocations, by call slot
    started,    \* number of fetchTerrain invocations made so far
    lastLive,   \* history: key -> time of the latest live fetch that was cached
    keyframes,       \* ScrollDrivenCamera's keyframes prop, in the caller's order
    given,           \* history: the keyframes array as the caller built it
    enabled,         \* its enabled prop
    scrollOffset,    \* scroll.offset, in tenths
    targetPosition,  \* the refs of the component, vectors of fractions
    targetLookAt,
    currentPosition,
    currentTarget,
    camera,          \* the three.js camera: position, lookAt point, fov
    frames,          \* number of rendered frames so far
    sections,        \* NarrativeOverlay's sections prop
    scrollProgress,  \* its scrollProgress prop, in steps of 1 / ScrollSteps
    panel,           \* what it renders: the section shown and its progress
    mode,            \* Home: the experience mode
    loadProgress,    \* its simulated load progress
    intervalOn,      \* whether its 200 ms interval is set
    introTimers,     \* number of pending setTimeout(() => setMode('intro'), 500)
    features,        \* config.features
    selectedLocation,  \* TerrainScene: the marker selected last, or "none"
    isAnimating,       \* its isAnimating state
    timers,            \* due times of its pending reset timers, oldest first
    lastSelect,        \* history: time of the last selection, -1 when none
    request,         \* RealWorldTerrain: the request props of the last render
    elevationData,   \* its elevationData state (NoData for null)
    error,           \* its error state (NoError for null)
    loading,         \* its loading state
    loadingProgress, \* its loadingProgress state, a fraction
    awaiting,        \* call slots whose fetchData has not continued yet
    latest           \* history: the call slot of the fetchData started last

fetchVars == <<now, store, storage, calls, started, lastLive>>

camVars == <<keyframes, given, enabled, scrollOffset, targetPosition, targetLookAt,
             currentPosition, currentTarget, camera, frames>>

narVars == <<sections, scrollProgress, panel>>

homeVars == <<mode, loadProgress, intervalOn, introTimers, features>>

sceneVars == <<selectedLocation, isAnimating, timers, lastSelect>>

terrainVars == <<request, elevationData, error, loading, loadingProgress, awaiting, latest>>

uiVars == <<homeVars, sceneVars, terrainVars>>

vars == <<now, store, storage, calls, started, lastLive, keyframes, given, enabled,
          scrollOffset, targetPosition, targetLookAt, currentPosition, currentTarget, camera, frames,
          sections, scrollProgress, panel, mode, loadProgress, intervalOn, introTimers,
          features, selectedLocation, isAnimating, timers, lastSelect, request,
          elevationData, error, loading, loadingProgress, awaiting, latest>>

----------------------------------------------------------------------------
(* Bounds of the model *)

MaxCalls == 2       \* fetchTerrain invocations per behaviour
MaxTicks == 2       \* clock advances per behaviour
MaxFrames == 2      \* rendered frames per behaviour
MaxTimers == 2      \* pending reset timers of TerrainScene
HorizonMs == 4000   \* milliseconds of scene time
SmallRes == 2       \* grid side giving one chunk per provider
MidRes == 11        \* grid side giving two 100-point chunks
BigRes == 23        \* grid side giving two 500-point chunks
ScrollSteps == 20   \* scroll positions of the narrative, in twentieths
Precision == 9      \* significant bits of a number (53 in a double)

----------------------------------------------------------------------------
(* Program constants *)

TTL == 24 * 60 * 60 * 1000

Infinity == 1000000000

ChunkSizeOTD == 100
ChunkSizeOM == 500
ChunkSizeOE == 100

Providers == <<"opentopodata", "openmeteo", "openelevation">>

ProviderSet == {Providers[j] : j \in 1..Len(Providers)}

ChunkSize(p) ==
    CASE p = "opentopodata" -> ChunkSizeOTD
      [] p = "openmeteo" -> ChunkSizeOM
      [] p = "openelevation" -> ChunkSizeOE

Min2(a, b) == IF a < b THEN a ELSE b
Max2(a, b) == IF a > b THEN a ELSE b

SetMin(S) == CHOOSE x \in S : \A y \in S : x <= y
SetMax(S) == CHOOSE x \in S : \A y \in S : x >= y

----------------------------------------------------------------------------
(* Cache key, bounding box *)

\* Number.prototype.toFixed(4) of a value counted in 1e-5.  The string is
\* "-" for x < 0, then the digits of the multiple of 1e-4 nearest to |x|
\* (the larger one on a tie): a sign and a count of 1e-4.
ToFixed4(x) ==
    [sign |-> IF x < 0 THEN "-" ELSE "",
     digits |-> ((IF x < 0 THEN -x ELSE x) + 5) \div 10]

getCacheKey(config) ==
    <<"terrain-", ToFixed4(config.lat), ToFixed4(config.lng),
      config.areaKm, config.resolution>>

\* cos(latitude) in thousandths, tabulated for the latitudes of the model.
CosMilli(lat) == IF lat \div 100000 = 60 THEN 500 ELSE 1000

getBoundingBox(lat, lng, areaKm) ==
    LET kmPerDegreeLat == 11132                                  \* hundredths of a km
        kmPerDegreeLng == (11132 * CosMilli(lat)) \div 1000
        deltaLat == (areaKm * 100 * 100000) \div (2 * kmPerDegreeLat)
        deltaLng == (areaKm * 100 * 100000) \div (2 * kmPerDegreeLng)
    IN [north |-> lat + deltaLat, south |-> lat - deltaLat,
        east |-> lng + deltaLng, west |-> lng - deltaLng]

NumPoints(config) == config.resolution * config.resolution

\* chunks.length / totalChunks: ceil(points / chunkSize)
NumChunks(p, config) == (NumPoints(config) + ChunkSize(p) - 1) \div ChunkSize(p)

\* chunks[i].length, i counted from 0
ChunkLen(p, config, i) == Min2(ChunkSize(p), NumPoints(config) - i * ChunkSize(p))

----------------------------------------------------------------------------
(* What the network can answer to one chunk request *)

\* One element of data.results (or of data.elevation): a number, an element
\* whose elevation is null, or an element that is itself null.
Num(v) == [tag |-> "num", elevation |-> v]
NullElevation == [tag |-> "null", elevation |-> 0]
NullResult == [tag |-> "nullResult", elevation |-> 0]

Lo == 0 - 2
Hi == 3

Uniform(n, e) == [j \in 1..n |-> e]

\* The result arrays the network may return for a chunk of n points.
PayloadsFull(n) ==
    { Uniform(n, Num(Lo)), Uniform(n, Num(Hi)), Uniform(n, NullElevation),
      [j \in 1..n |-> IF j % 2 = 1 THEN Num(Hi) ELSE NullElevation],
      [j \in 1..n |-> IF j = 2 THEN NullResult ELSE Num(Hi)] }

PayloadsBrief(n) == { [j \in 1..n |-> IF j % 2 = 1 THEN Num(Hi) ELSE NullElevation] }

Reject == [kind |-> "reject", status |-> "", hasResults |-> FALSE, results |-> <<>>]
HttpError == [kind |-> "http", status |-> "", hasResults |-> FALSE, results |-> <<>>]
Json(status, hasResults, results) ==
    [kind |-> "json", status |-> status, hasResults |-> hasResults, results |-> results]

\* fetch() rejects; response.ok is false; or a JSON body arrives.
Responses(n, payloads) ==
    {Reject, HttpError, Json("OK", FALSE, <<>>), Json("INVALID", TRUE, Uniform(n, Num(Hi)))}
    \cup {Json("OK", TRUE, r) : r \in payloads}

ResponsesFull(n) == Responses(n, PayloadsFull(n))
ResponsesBrief(n) == {Reject, HttpError} \cup {Json("OK", TRUE, r) : r \in PayloadsBrief(n)}

----------------------------------------------------------------------------
(* One fetchTerrain invocation *)

NoData ==
    [elevations |-> <<>>, width |-> 0, height |-> 0, minElevation |-> 0,
     maxElevation |-> 0, bounds |-> getBoundingBox(0, 0, 0), source |-> "none"]

NoError == [provider |-> "none", kind |-> "none"]

NoConfig ==
    [lat |-> 0, lng |-> 0, zoom |-> 0, tileSize |-> 0, areaKm |-> 0, resolution |-> 0]

IdleCall ==
    [id |-> 0, pc |-> "idle", config |-> NoConfig, provider |-> "auto",
     useCache |-> FALSE, startedAt |-> 0,
     cur |-> "none", i |-> 0, offset |-> 0, elevations |-> <<>>,
     minElev |-> Infinity, maxElev |-> -Infinity,
     lastError |-> NoError, data |-> NoData, error |-> NoError,
     \* history of the invocation
     invoked |-> <<>>, thrown |-> <<>>, requests |-> <<>>, progress |-> <<>>,
     failedChunks |-> {}, okChunks |-> {}, valid |-> {}, nulls |-> 0,
     reported |-> <<>>, wrote |-> FALSE, hit |-> FALSE, doneSeq |-> 0]

Zeros(n) == [j \in 1..n |-> 0]

\* (variant: the share of finished chunks, i + 1 of n, not scaled by 0.9)
ProgressAtUnscaled(i, n) == <<n + 10 * (i + 1), 10 * n>>

\* onProgress?.(progress, message): 0.1 + (i / chunks.length) * 0.9 as a fraction
ProgressAt(i, n) == <<n + 9 * i, 10 * n>>

Report(call, p, value) ==
    [call EXCEPT !.progress = Append(@, [by |-> p, value |-> value])]

\* setTimeout(r, ms) between chunks
DelayMs(p) ==
    CASE p = "opentopodata" -> 1100
      [] p = "openmeteo" -> 100
      [] p = "openelevation" -> 150

\* The record of a chunk request: waited is the time slept since the
\* response to the request before it.
RequestOf(call, i) ==
    [provider |-> call.cur, chunk |-> i,
     waited |-> IF call.pc = "delay" THEN DelayMs(call.cur) ELSE 0]

\* (variant: the request for the chunk after i goes out together with it)
RequestPair(call) ==
    [call EXCEPT !.pc = "fetch",
                 !.requests = @ \o <<RequestOf(call, call.i), RequestOf(call, call.i + 1)>>]

\* await fetch(url) for chunk i of the current provider
Request(call) ==
    [call EXCEPT !.pc = "fetch", !.requests = Append(@, RequestOf(call, call.i))]

\* The provider function up to its first await: progress 0.1, the grid of
\* zeros (new Float32Array), and the request for chunk 0.
ProviderBegin(call, p, config) ==
    Request(Report(
        [call EXCEPT !.cur = p, !.i = 0, !.offset = 0,
                     !.elevations = Zeros(NumPoints(config)),
                     !.minElev = Infinity, !.maxElev = -Infinity,
                     !.invoked = Append(@, [provider |-> p, config |-> config]),
                     !.failedChunks = {}, !.okChunks = {}, !.valid = {}, !.nulls = 0,
                     !.reported = Zeros(NumPoints(config))],
        p, <<1, 10>>))

----------------------------------------------------------------------------
(* Processing of one chunk's results *)

\* result.elevation as a JavaScript value: null or a number
JsValue(e) == [isNull |-> e.tag # "num", n |-> e.elevation]
JsNumber(v) == [isNull |-> FALSE, n |-> v]

\* x ?? 0
Coalesce(x) == IF x.isNull THEN JsNumber(0) ELSE x

\* x || 0
OrZero(x) == IF x.isNull \/ x.n = 0 THEN JsNumber(0) ELSE x

\* const elev = result.elevation ?? 0 (|| 0 in fetchOpenElevation)
ElevOf(p, e) == IF p = "openelevation" THEN OrZero(JsValue(e)) ELSE Coalesce(JsValue(e))

\* if (elev !== null) guards the min/max update of fetchOpenTopoData and
\* fetchOpenMeteo; fetchOpenElevation updates unconditionally.
CountsForMinMax(p, e) == IF p = "openelevation" THEN TRUE ELSE ~ElevOf(p, e).isNull

\* Reading .elevation of a null array element throws a TypeError; the
\* elements of Open-Meteo's array are the values themselves.
ElementThrows(p, e) == p # "openmeteo" /\ e.tag = "nullResult"

\* How many elements the for-of loop processes before it throws (all, if none)
Processed(p, results) ==
    LET bad == {j \in 1..Len(results) : ElementThrows(p, results[j])}
    IN IF bad = {} THEN Len(results) ELSE SetMin(bad) - 1

\* The loop over the first k results: elevations[offset++] = elev, min, max.
\* A write past the end of the Float32Array is ignored.
ApplyResults(call, p, results, k) ==
    LET counted == {ElevOf(p, results[j]).n :
                        j \in {x \in 1..k : CountsForMinMax(p, results[x])}}
    IN [call EXCEPT
          !.elevations = [j \in 1..Len(@) |->
                            IF j > call.offset /\ j <= call.offset + k
                            THEN ElevOf(p, results[j - call.offset]).n ELSE @[j]],
          !.offset = @ + k,
          !.minElev = SetMin({@} \cup counted),
          !.maxElev = SetMax({@} \cup counted),
          !.valid = @ \cup {results[j].elevation : j \in {x \in 1..k : results[x].tag = "num"}},
          !.nulls = @ + Cardinality({j \in 1..k : results[j].tag # "num"})]

\* for (let j = 0; j < chunk.length; j++) elevations[offset++] = 0
FillZeros(call, n) ==
    [call EXCEPT
       !.elevations = [j \in 1..Len(@) |->
                         IF j > call.offset /\ j <= call.offset + n THEN 0 ELSE @[j]],
       !.offset = @ + n]

\* The error a chunk's response raises inside the provider's try block
\* ("none" when the chunk is processed to its end).
ChunkError(p, resp) ==
    CASE resp.kind = "reject" -> "network"
      [] resp.kind = "http" -> "http"
      [] p = "opentopodata" /\ (resp.status # "OK" \/ ~resp.hasResults) -> "invalid"
      [] p = "openmeteo" /\ ~resp.hasResults -> "invalid"
      [] p = "openelevation" /\ ~resp.hasResults -> "type"
      [] Processed(p, resp.results) < Len(resp.results) -> "type"
      [] OTHER -> "none"

\* if (minElev === Infinity) minElev = 0; if (maxElev === -Infinity) maxElev = 100;
\* onProgress?.(1, ...); return {...}
SourceTag(p) == p

\* (variant: minElevation and maxElevation are returned as accumulated)
ProviderReturnRaw(call, p, config) ==
    LET done == Report(call, p, <<1, 1>>)
    IN [done EXCEPT !.data =
          [elevations |-> call.elevations,
           width |-> config.resolution,
           height |-> config.resolution,
           minElevation |-> call.minElev,
           maxElevation |-> call.maxElev,
           bounds |-> getBoundingBox(config.lat, config.lng, config.areaKm),
           source |-> SourceTag(p)]]

ProviderReturn(call, p, config) ==
    LET done == Report(call, p, <<1, 1>>)
    IN [done EXCEPT !.data =
          [elevations |-> call.elevations,
           width |-> config.resolution,
           height |-> config.resolution,
           minElevation |-> IF call.minElev = Infinity THEN 0 ELSE call.minElev,
           maxElevation |-> IF call.maxElev = -Infinity THEN 100 ELSE call.maxElev,
           bounds |-> getBoundingBox(config.lat, config.lng, config.areaKm),
           source |-> SourceTag(p)]]

----------------------------------------------------------------------------
(* The localStorage cache *)

\* (variant: a value already stored under the key is kept)
SetItemOnce(st, key, value) ==
    IF key \in DOMAIN st THEN st
    ELSE [k \in DOMAIN st \cup {key} |-> IF k = key THEN value ELSE st[k]]

SetItem(st, key, value) ==
    [k \in DOMAIN st \cup {key} |-> IF k = key THEN value ELSE st[k]]

RemoveItem(st, key) == [k \in DOMAIN st \ {key} |-> st[k]]

\* (variant: the subtraction the wrong way round)
ExpiredReversed(entry, t) == entry.timestamp - t > TTL

\* Date.now() - entry.timestamp > ttl
Expired(entry, t) == t - entry.timestamp > TTL

\* (variant: the entry is handed back with the tag it was stored with)
FromEntryUntagged(entry) == entry.data

\* The ElevationData a cache entry is read back as
FromEntry(entry) == [entry.data EXCEPT !.source = "cache"]

\* A value that is not the JSON of a CacheEntry: JSON.parse, or the reading
\* of entry.timestamp or entry.data.source, throws.
Garbage == [text |-> "<html>"]

Parses(value) == "timestamp" \in DOMAIN value

\* typeof window === 'undefined', or every access to localStorage throws
Unavailable == storage = "unavailable"

\* localStorage.setItem does not throw (it does when the quota is exceeded)
Writable == storage = "ok"

\* [hit, data, store]: the value returned and the store left behind; every
\* exception inside the try block is a miss.
getFromCache(st, config, t) ==
    LET key == getCacheKey(config)
        miss == [hit |-> FALSE, data |-> NoData, store |-> st]
    IN IF Unavailable THEN miss
       ELSE IF key \notin DOMAIN st THEN miss
       ELSE IF ~Parses(st[key]) THEN miss
       ELSE IF Expired(st[key], t)
            THEN [hit |-> FALSE, data |-> NoData, store |-> RemoveItem(st, key)]
            ELSE [hit |-> TRUE, data |-> FromEntry(st[key]), store |-> st]

\* (variant: the entry is stored already tagged as cached)
ToEntryTagged(data, t) ==
    [data |-> [data EXCEPT !.source = "cache"], timestamp |-> t]

\* The CacheEntry written for data at time t
ToEntry(data, t) ==
    [data |-> [elevations |-> data.elevations, width |-> data.width,
               height |-> data.height, minElevation |-> data.minElevation,
               maxElevation |-> data.maxElevation, bounds |-> data.bounds,
               source |-> data.source],
     timestamp |-> t]

\* (variant: without the try block and the window test)
saveToCacheUnguarded(st, config, data, t) ==
    SetItem(st, getCacheKey(config), ToEntry(data, t))

\* A write that throws, or that has no window, leaves the store as it is.
saveToCache(st, config, data, t) ==
    IF Unavailable \/ ~Writable THEN st
    ELSE SetItem(st, getCacheKey(config), ToEntry(data, t))

\* key?.startsWith('terrain-')
StartsWithPrefix(key) == key[1] = "terrain-"

\* (variant: every key of the store is removed)
clearAll(st) == <<>>

\* keysToRemove collected over the whole store, then removed one by one
clearTerrainCache(st) ==
    LET keysToRemove == {k \in DOMAIN st : StartsWithPrefix(k)}
    IN [k \in DOMAIN st \ keysToRemove |-> st[k]]

----------------------------------------------------------------------------
(* fetchTerrain around the providers *)

\* provider !== 'auto' ? the pinned one : providers[0]
FirstProvider(option) == IF option = "auto" THEN Providers[1] ELSE option

\* (variant: the fallback loop also runs for a pinned provider)
FallsBackAlways(option) == TRUE

\* Whether a provider's exception is caught and the next provider tried
FallsBack(option) == option = "auto"

\* (variant: the loop steps over the provider after the one that threw)
NextProviderSkip(n) == IF n + 1 < Len(Providers) THEN Providers[n + 2] ELSE "none"

\* for (const {name, fn} of providers): the provider tried after n of them
\* have thrown, "none" once the list is exhausted
NextProvider(n) == IF n < Len(Providers) THEN Providers[n + 1] ELSE "none"

\* if (!data) throw ...; if (useCache) saveToCache(config, data); return data
Resolve(call, st, t) ==
    [call |-> [call EXCEPT !.pc = "resolved",
                           !.wrote = call.useCache /\ ~Unavailable /\ Writable],
     store |-> IF call.useCache THEN saveToCache(st, call.config, call.data, t) ELSE st]

\* The current provider has thrown err.
ProviderThrew(call, err, st) ==
    LET e == [provider |-> call.cur, kind |-> err]
        threw == [call EXCEPT !.thrown = Append(@, e)]
        next == NextProvider(Len(call.invoked))
    IN IF ~FallsBack(call.provider)
       THEN [call |-> [threw EXCEPT !.pc = "rejected", !.error = e, !.elevations = <<>>],
             store |-> st]
       ELSE IF next # "none"
            THEN [call |-> ProviderBegin([threw EXCEPT !.lastError = e], next, call.config),
                  store |-> st]
            ELSE [call |-> [threw EXCEPT !.pc = "rejected", !.lastError = e, !.error = e,
                                         !.elevations = <<>>],
                  store |-> st]

\* After chunk i: the loop goes on with chunk i + 1, or the provider returns.
NextChunk(call, st, t) ==
    LET p == call.cur
        stepped == [call EXCEPT !.i = @ + 1]
    IN IF stepped.i < NumChunks(p, call.config)
       THEN [call |-> Request(stepped), store |-> st]
       ELSE Resolve(ProviderReturn(stepped, p, call.config), st, t)

\* fetchOpenElevation's catch: zeros for the chunk, then the next chunk at once
OnChunkFailure(call, resp, st, t) ==
    LET p == call.cur
        k == IF resp.kind = "json" /\ resp.hasResults THEN Processed(p, resp.results) ELSE 0
        partial == ApplyResults(call, p, resp.results, k)
        filled == FillZeros(partial, ChunkLen(p, call.config, call.i))
    IN NextChunk([filled EXCEPT !.failedChunks = @ \cup {call.i}], st, t)

\* (variant: fetchOpenElevation rethrows like the other two)
RethrowsAll(p) == TRUE

\* Whether the provider's catch block rethrows (true) or recovers (false)
Rethrows(p) == p # "openelevation"

\* Whether the provider sleeps after chunk i of n
SleepsAfter(p, i, n) == IF p = "openelevation" THEN TRUE ELSE i < n - 1

\* History: what the response says about the points of chunk i.  The j-th
\* result answers the j-th location of the chunk, which is point
\* i * chunkSize + j of the row-major list of grid points.
Heard(call, resp) ==
    LET start == call.i * ChunkSize(call.cur)
    IN [call EXCEPT !.reported =
          [idx \in 1..Len(@) |->
              IF idx > start /\ idx - start <= Len(resp.results)
              THEN (IF resp.results[idx - start].tag = "num"
                    THEN resp.results[idx - start].elevation ELSE 0)
              ELSE @[idx]]]

\* The continuation of await fetch(url) / await response.json() for chunk i
OnResponse(answered, resp, st, t) ==
    LET call == Heard(answered, resp)
        p == call.cur
        n == NumChunks(p, call.config)
        err == ChunkError(p, resp)
        applied == ApplyResults(call, p, resp.results, Len(resp.results))
        reported == Report([applied EXCEPT !.okChunks = @ \cup {call.i}],
                           p, ProgressAt(call.i, n))
    IN IF err # "none"
       THEN IF Rethrows(p) THEN ProviderThrew(call, err, st)
                           ELSE OnChunkFailure(call, resp, st, t)
       ELSE IF SleepsAfter(p, call.i, n)
            THEN [call |-> [reported EXCEPT !.pc = "delay"], store |-> st]
            ELSE NextChunk(reported, st, t)

\* fetchTerrain up to its first await
Begin(call, st, t) ==
    LET cached == IF call.useCache THEN getFromCache(st, call.config, t)
                  ELSE [hit |-> FALSE, data |-> NoData, store |-> st]
    IN IF cached.hit
       THEN [call |-> [Report(call, "cache", <<1, 1>>) EXCEPT
                         !.pc = "resolved", !.data = cached.data, !.hit = TRUE],
             store |-> cached.store]
       ELSE [call |-> ProviderBegin(call, FirstProvider(call.provider), call.config),
             store |-> cached.store]

----------------------------------------------------------------------------
(* Fractions: <<numerator, denominator>>, denominator positive, in lowest terms *)

Abs(x) == IF x < 0 THEN -x ELSE x

RECURSIVE GCD(_, _)
GCD(a, b) == IF b = 0 THEN a ELSE GCD(b, a % b)

Norm(q) ==
    LET g == GCD(Abs(q[1]), Abs(q[2]))
        sgn == IF q[2] < 0 THEN -1 ELSE 1
    IN IF q[1] = 0 THEN <<0, 1>> ELSE <<sgn * (q[1] \div g), sgn * (q[2] \div g)>>

R(n) == <<n, 1>>

RAdd(a, b) ==
    LET g == GCD(a[2], b[2])
    IN Norm(<<a[1] * (b[2] \div g) + b[1] * (a[2] \div g), (a[2] \div g) * b[2]>>)

RNeg(a) == <<-a[1], a[2]>>

RSub(a, b) == RAdd(a, RNeg(b))

RMul(a, b) ==
    LET g1 == GCD(Abs(a[1]), b[2])
        g2 == GCD(Abs(b[1]), a[2])
    IN IF a[1] = 0 \/ b[1] = 0 THEN <<0, 1>>
       ELSE Norm(<<(a[1] \div g1) * (b[1] \div g2), (a[2] \div g2) * (b[2] \div g1)>>)

RLt(a, b) == a[1] * b[2] < b[1] * a[2]

----------------------------------------------------------------------------
(* ScrollDrivenCamera *)

Vec(x, y, z) == <<R(x), R(y), R(z)>>

\* [...keyframes].sort((a, b) => a.offset - b.offset): a stable sort of a copy
RECURSIVE Insert(_, _)
Insert(sorted, kf) ==
    IF sorted = <<>> THEN <<kf>>
    ELSE IF sorted[Len(sorted)].offset <= kf.offset THEN Append(sorted, kf)
    ELSE Append(Insert(SubSeq(sorted, 1, Len(sorted) - 1), kf), sorted[Len(sorted)])

RECURSIVE SortByOffset(_)
SortByOffset(kfs) ==
    IF kfs = <<>> THEN <<>>
    ELSE Insert(SortByOffset(SubSeq(kfs, 1, Len(kfs) - 1)), kfs[Len(kfs)])

\* (variant: the caller's array is used as it is)
NoSort(kfs) == [sorted |-> kfs, array |-> kfs]

\* useMemo(() => [...keyframes].sort(...), [keyframes]): the sorted copy, and
\* the caller's array as the memo leaves it
SortCopy(kfs) == [sorted |-> SortByOffset(kfs), array |-> kfs]

sortedKeyframes == SortCopy(keyframes).sorted

\* The first i with sorted[i].offset <= offset <= sorted[i + 1].offset decides;
\* when there is none, before and after stay the first and the last keyframe.
findKeyframeRange(sorted, offset) ==
    LET hits == {i \in 1..(Len(sorted) - 1) :
                    sorted[i].offset <= offset /\ sorted[i + 1].offset >= offset}
    IN IF hits = {}
       THEN [before |-> sorted[1], after |-> sorted[Len(sorted)]]
       ELSE [before |-> sorted[SetMin(hits)], after |-> sorted[SetMin(hits) + 1]]

\* (variant: no easing, the weight is t itself)
easeLinear(t) == t

\* t < 0.5 ? 4 * t * t * t : 1 - Math.pow(-2 * t + 2, 3) / 2
easeInOutCubic(t) ==
    IF RLt(t, <<1, 2>>)
    THEN RMul(R(4), RMul(t, RMul(t, t)))
    ELSE LET u == RAdd(RMul(R(-2), t), R(2))
         IN RSub(R(1), RMul(RMul(u, RMul(u, u)), <<1, 2>>))

\* THREE.MathUtils.lerp(x, y, t) = (1 - t) * x + t * y
lerp(x, y, t) == RAdd(RMul(RSub(R(1), t), x), RMul(t, y))

\* range > 0 ? (offset - before.offset) / range : 0
LocalT(before, after, offset) ==
    LET range == after.offset - before.offset
    IN IF range > 0 THEN Norm(<<offset - before.offset, range>>) ELSE R(0)

\* (variant: the fov is set to the interpolated fov)
FovSnap(fov, targetFov) == targetFov

\* camera.fov = THREE.MathUtils.lerp(camera.fov, targetFov, 0.1)
FovStep(fov, targetFov) == lerp(fov, targetFov, <<1, 10>>)

\* The pose interpolateKeyframes computes for a scroll offset: the new
\* targetPosition and targetLookAt, and the camera's fov.
interpolateKeyframes(sorted, offset, fov) ==
    LET r == findKeyframeRange(sorted, offset)
        eased == easeInOutCubic(LocalT(r.before, r.after, offset))
        mix(a, b) == [j \in 1..3 |-> lerp(R(a[j]), R(b[j]), eased)]
    IN [position |-> mix(r.before.position, r.after.position),
        lookAt |-> mix(r.before.target, r.after.target),
        fov |-> IF r.before.hasFov /\ r.after.hasFov
                THEN FovStep(fov, lerp(R(r.before.fov), R(r.after.fov), eased))
                ELSE fov]

\* 1 - Math.pow(0.001, delta) for a delta of k thirds of a second: 1 - 10^-k
RECURSIVE Pow10(_)
Pow10(k) == IF k = 0 THEN 1 ELSE 10 * Pow10(k - 1)

\* (variant: a factor above 1, 1 + 10^-k)
LerpFactorOver(k) == <<Pow10(k) + 1, Pow10(k)>>

LerpFactor(k) == <<Pow10(k) - 1, Pow10(k)>>

\* Vector3.lerp(v, alpha): this += (v - this) * alpha, per component
Vector3Lerp(cur, v, alpha) == [j \in 1..3 |-> RAdd(cur[j], RMul(RSub(v[j], cur[j]), alpha))]

Keyframe(offset, position, target, hasFov, fov) ==
    [offset |-> offset, position |-> position, target |-> target,
     hasFov |-> hasFov, fov |-> fov]

KA == Keyframe(2, <<0, 4, 8>>, <<0, 0, 0>>, TRUE, 50)
KB == Keyframe(6, <<4, 2, 8>>, <<2, 0, -2>>, FALSE, 0)
KC == Keyframe(8, <<-4, 6, 0>>, <<0, 2, 2>>, TRUE, 60)

\* The keyframe lists handed to the component, sorted or not
KeyframeLists ==
    { <<KA>>, <<KA, KB>>, <<KB, KA>>, <<KA, KB, KC>>, <<KC, KA, KB>> }

ScrollOffsets == {0, 2, 3, 4, 6, 7, 10}

DeltaThirds == {1, 2}

\* The canvas camera starts at the first keyframe's position, fov || 45
CameraAt(kfs) ==
    [position |-> Vec(kfs[1].position[1], kfs[1].position[2], kfs[1].position[3]),
     lookAt |-> Vec(0, 0, 0),
     fov |-> IF kfs[1].hasFov /\ kfs[1].fov # 0 THEN R(kfs[1].fov) ELSE R(45)]

CameraInit ==
    /\ keyframes \in KeyframeLists
    /\ given = keyframes
    /\ enabled \in BOOLEAN
    /\ scrollOffset = 0
    /\ targetPosition = Vec(0, 0, 0)
    /\ targetLookAt = Vec(0, 0, 0)
    /\ currentPosition = Vec(0, 0, 0)
    /\ currentTarget = Vec(0, 0, 0)
    /\ camera = CameraAt(keyframes)
    /\ frames = 0

\* The camera part of a state of the fetch pipeline's specifications
CameraIdle ==
    /\ keyframes = <<KA>>
    /\ given = keyframes
    /\ enabled = FALSE
    /\ scrollOffset = 0
    /\ targetPosition = Vec(0, 0, 0)
    /\ targetLookAt = Vec(0, 0, 0)
    /\ currentPosition = Vec(0, 0, 0)
    /\ currentTarget = Vec(0, 0, 0)
    /\ camera = CameraAt(keyframes)
    /\ frames = 0

\* The user scrolls: scroll.offset becomes o.
Scroll(o) ==
    /\ o # scrollOffset
    /\ scrollOffset' = o
    /\ UNCHANGED <<keyframes, given, enabled, targetPosition, targetLookAt,
                   currentPosition, currentTarget, camera, frames>>
    /\ UNCHANGED fetchVars
    /\ UNCHANGED narVars
    /\ UNCHANGED uiVars

\* The parent renders the component again with the keyframes array kfs: the
\* memo is recomputed, the refs made by useRef stay as they are.
Rerender(kfs) ==
    /\ kfs # given
    /\ given' = kfs
    /\ keyframes' = SortCopy(kfs).array
    /\ UNCHANGED <<enabled, scrollOffset, targetPosition, targetLookAt,
                   currentPosition, currentTarget, camera, frames>>
    /\ UNCHANGED fetchVars
    /\ UNCHANGED narVars
    /\ UNCHANGED uiVars

\* useFrame((_, delta) => ...), delta = k thirds of a second
Frame(k) ==
    /\ frames < MaxFrames
    /\ frames' = frames + 1
    /\ IF ~enabled
       THEN UNCHANGED <<targetPosition, targetLookAt, currentPosition,
                        currentTarget, camera>>
       ELSE LET pose == interpolateKeyframes(sortedKeyframes, scrollOffset, camera.fov)
                lerpFactor == LerpFactor(k)
                position == Vector3Lerp(currentPosition, pose.position, lerpFactor)
                target == Vector3Lerp(currentTarget, pose.lookAt, lerpFactor)
            IN /\ targetPosition' = pose.position
               /\ targetLookAt' = pose.lookAt
               /\ currentPosition' = position
               /\ currentTarget' = target
               /\ camera' = [position |-> position, lookAt |-> target, fov |-> pose.fov]
    /\ UNCHANGED <<keyframes, given, enabled, scrollOffset>>
    /\ UNCHANGED fetchVars
    /\ UNCHANGED narVars
    /\ UNCHANGED uiVars

----------------------------------------------------------------------------
(* NarrativeOverlay *)

Section(id, scrollStart, scrollEnd) ==
    [id |-> id, scrollStart |-> scrollStart, scrollEnd |-> scrollEnd]

NoSection == Section("none", 0, 0)

\* JavaScript numbers are binary floating point, rounded to nearest, ties to
\* even, after every operation.  They are modelled with Precision
\* significant bits; a number is the fraction <<n, d>> it stands for, and
\* NaN is written <<0, 0>>.
RECURSIVE Pow2(_)
Pow2(k) == IF k = 0 THEN 1 ELSE 2 * Pow2(k - 1)

\* The least e with a * 2^e / d >= 2^(Precision - 1), for 0 < a / d < 2^Precision
RECURSIVE Exponent(_, _, _)
Exponent(a, d, e) ==
    IF a * Pow2(e) >= Pow2(Precision - 1) * d THEN e ELSE Exponent(a, d, e + 1)

Round(q) ==
    IF q[1] = 0 THEN q
    ELSE LET a == Abs(q[1])
             e == Exponent(a, q[2], 0)
             m == (a * Pow2(e)) \div q[2]
             rest == a * Pow2(e) - m * q[2]
             up == 2 * rest > q[2] \/ (2 * rest = q[2] /\ m % 2 = 1)
             r == IF up THEN m + 1 ELSE m
         IN Norm(<<(IF q[1] < 0 THEN -r ELSE r), Pow2(e)>>)

\* The number a section boundary or a scroll position of k twentieths is
Twentieths(k) == Round(Norm(<<k, 20>>))

FAdd(x, y) == Round(RAdd(x, y))
FSub(x, y) == Round(RSub(x, y))

\* x / y; the dividend is 0 wherever the divisor is, and 0 / 0 is NaN
FDiv(x, y) == IF y[1] = 0 THEN <<0, 0>> ELSE Round(RMul(x, Norm(<<y[2], y[1]>>)))

\* (variant: the last section whose range holds the progress)
FindLast(list, p) ==
    LET hits == {j \in 1..Len(list) :
                    /\ ~RLt(Twentieths(p), Twentieths(list[j].scrollStart))
                    /\ ~RLt(Twentieths(list[j].scrollEnd), Twentieths(p))}
    IN IF hits = {} THEN NoSection ELSE list[SetMax(hits)]

\* sections.find(s => scrollProgress >= s.scrollStart && scrollProgress <= s.scrollEnd)
activeSection(list, p) ==
    LET hits == {j \in 1..Len(list) :
                    /\ ~RLt(Twentieths(p), Twentieths(list[j].scrollStart))
                    /\ ~RLt(Twentieths(list[j].scrollEnd), Twentieths(p))}
    IN IF hits = {} THEN NoSection ELSE list[SetMin(hits)]

getSectionProgress(section, p) ==
    LET scrollStart == Twentieths(section.scrollStart)
        scrollEnd == Twentieths(section.scrollEnd)
        progress == Twentieths(p)
    IN IF RLt(progress, scrollStart) THEN R(0)
       ELSE IF RLt(scrollEnd, progress) THEN R(0)
       ELSE LET range == FSub(scrollEnd, scrollStart)
                half == FDiv(range, R(2))
                mid == FAdd(scrollStart, half)
            IN IF RLt(progress, mid)
               THEN FDiv(FSub(progress, scrollStart), half)
               ELSE LET q == FDiv(FSub(progress, mid), half)
                    IN IF q = <<0, 0>> THEN q ELSE FSub(R(1), q)

\* The element NarrativeOverlay returns: one NarrativeSectionView, or none
Render(list, p) ==
    LET active == activeSection(list, p)
    IN IF active = NoSection
       THEN [shown |-> <<>>, progress |-> R(0)]
       ELSE [shown |-> <<active.id>>, progress |-> getSectionProgress(active, p)]

S1 == Section("intro", 0, 8)
S2 == Section("valley", 8, 16)
S3 == Section("ridge", 4, 12)
S4 == Section("peak", 18, 18)
S5 == Section("summit", 2, 5)

SectionLists ==
    { <<S1, S2>>, <<S2, S1>>, <<S1, S3, S2>>, <<S3, S2, S1>>, <<S2, S4>>, <<S3>>,
      <<S5, S2>> }

NarrativeInit ==
    /\ sections \in SectionLists
    /\ scrollProgress = 0
    /\ panel = Render(sections, 0)

\* The narrative part of a state of the other specifications
NarrativeIdle ==
    /\ sections = <<S3>>
    /\ scrollProgress = 0
    /\ panel = Render(sections, 0)

\* The page scrolls to p and NarrativeOverlay renders again.
ScrollTo(p) ==
    /\ p # scrollProgress
    /\ scrollProgress' = p
    /\ panel' = Render(sections, p)
    /\ UNCHANGED sections
    /\ UNCHANGED fetchVars
    /\ UNCHANGED camVars
    /\ UNCHANGED uiVars

----------------------------------------------------------------------------
(* Home, TerrainScene and RealWorldTerrain before they do anything *)

\* useState('loading'), useState(0); the interval is set by the mount effect
HomeIdle ==
    /\ mode = "loading"
    /\ loadProgress = 0
    /\ intervalOn = FALSE
    /\ introTimers = 0
    /\ features = [enableScrollytelling |-> TRUE, enableExploration |-> TRUE]

\* useState(null), useState(false)
SceneIdle ==
    /\ selectedLocation = "none"
    /\ isAnimating = FALSE
    /\ timers = <<>>
    /\ lastSelect = -1

NoRequest == [config |-> NoConfig, provider |-> "auto", useCache |-> TRUE]

\* useState(null), useState(true), useState(0), useState(null)
TerrainIdle ==
    /\ request = NoRequest
    /\ elevationData = NoData
    /\ error = NoError
    /\ loading = TRUE
    /\ loadingProgress = <<0, 1>>
    /\ awaiting = {}
    /\ latest = 0

UiIdle == HomeIdle /\ SceneIdle /\ TerrainIdle

----------------------------------------------------------------------------
(* Actions of the fetch pipeline *)

CallIds == DOMAIN calls

Options == ProviderSet \cup {"auto"}

Lats == {6000004, 6000006}

ConfigsOf(lats, resolutions) ==
    [lat : lats, lng : {-12000000}, zoom : {12}, tileSize : {512}, areaKm : {10},
     resolution : resolutions]

Free(c) == calls[c].pc \in {"idle", "resolved", "rejected"}

\* The promise of call c settles: doneSeq records the order in which the
\* calls' promises settle (history of the invocation).
Settle(c, call) ==
    IF call.pc \in {"resolved", "rejected"} /\ call.doneSeq = 0
    THEN [call EXCEPT !.doneSeq =
            1 + SetMax({calls[d].doneSeq : d \in DOMAIN calls \ {c}} \cup {0})]
    ELSE call

\* fetchTerrain(config, {provider, useCache, onProgress}) is invoked and runs
\* up to its first await.
Invoke(c, config, provider, useCache) ==
    /\ Free(c)
    /\ started < MaxCalls
    /\ LET fresh == [IdleCall EXCEPT !.id = started + 1, !.config = config,
                                     !.provider = provider, !.useCache = useCache,
                                     !.startedAt = now]
           r == Begin(fresh, store, now)
       IN /\ calls' = [calls EXCEPT ![c] = Settle(c, r.call)]
          /\ store' = r.store
    /\ started' = started + 1
    /\ UNCHANGED <<now, storage, lastLive>>
    /\ UNCHANGED camVars
    /\ UNCHANGED narVars

\* The progress the callback passed last, or the value shown before
LastProgress(call, shown) ==
    IF call.progress = <<>> THEN shown ELSE call.progress[Len(call.progress)].value

\* A caller other than the terrain component invokes fetchTerrain.
FetchTerrain(c, config, provider, useCache) ==
    /\ Invoke(c, config, provider, useCache)
    /\ UNCHANGED uiVars

\* The step of call c from the state r.call: a live result that was cached
\* is remembered in lastLive, and the progress callback of the terrain
\* component (handleProgress) shows what the step reported.
Commit(c, r) ==
    /\ calls' = [calls EXCEPT ![c] = Settle(c, r.call)]
    /\ store' = r.store
    /\ lastLive' =
         IF r.call.pc = "resolved" /\ r.call.wrote
         THEN SetItem(lastLive, getCacheKey(r.call.config), now)
         ELSE lastLive
    /\ UNCHANGED <<now, storage, started>>
    /\ UNCHANGED camVars
    /\ UNCHANGED narVars
    /\ loadingProgress' =
         IF c \in awaiting /\ Len(r.call.progress) > Len(calls[c].progress)
         THEN LastProgress(r.call, loadingProgress)
         ELSE loadingProgress
    /\ UNCHANGED <<request, elevationData, error, loading, awaiting, latest>>
    /\ UNCHANGED <<homeVars, sceneVars>>

PendingLen(c) == ChunkLen(calls[c].cur, calls[c].config, calls[c].i)

\* The network answers the pending chunk request of call c.
ChunkResponse(c, full) ==
    /\ calls[c].pc = "fetch"
    /\ \E resp \in IF full THEN ResponsesFull(PendingLen(c)) ELSE ResponsesBrief(PendingLen(c)) :
          Commit(c, OnResponse(calls[c], resp, store, now))

\* The rate-limit timer of call c fires.
DelayElapsed(c) ==
    /\ calls[c].pc = "delay"
    /\ Commit(c, NextChunk(calls[c], store, now))

TickCount(t) == (t \div TTL) + (t % TTL)

\* Time passes: a millisecond or a whole TTL.
Tick(d) ==
    /\ TickCount(now) < MaxTicks
    /\ now' = now + d
    /\ UNCHANGED <<store, storage, calls, started, lastLive>>
    /\ UNCHANGED camVars
    /\ UNCHANGED narVars
    /\ UNCHANGED uiVars

\* clearTerrainCache() is called (from the console, say).
ClearTerrainCache ==
    /\ store' = IF Unavailable THEN store ELSE clearTerrainCache(store)
    /\ lastLive' = IF Unavailable THEN lastLive ELSE <<>>
    /\ UNCHANGED <<now, storage, calls, started>>
    /\ UNCHANGED camVars
    /\ UNCHANGED narVars
    /\ UNCHANGED uiVars

FetchInit ==
    /\ now = 0
    /\ store = <<>>
    /\ storage = "ok"
    /\ calls = [c \in {1} |-> IdleCall]
    /\ started = 0
    /\ lastLive = <<>>

Init == FetchInit /\ CameraIdle /\ NarrativeIdle /\ UiIdle

Next ==
    \/ \E c \in CallIds, config \in ConfigsOf(Lats, {SmallRes}), provider \in Options,
          useCache \in BOOLEAN : FetchTerrain(c, config, provider, useCache)
    \/ \E c \in CallIds : ChunkResponse(c, FALSE)
    \/ \E c \in CallIds : DelayElapsed(c)
    \/ \E d \in {1, TTL} : Tick(d)

Spec == Init /\ [][Next]_vars

\* One provider called on its own (a pinned, uncached fetchTerrain), on grids
\* of several chunks and with every kind of answer.
ProviderInputs ==
    (ProviderSet \X ConfigsOf({6000004}, {MidRes}))
    \cup ({"openmeteo"} \X ConfigsOf({6000004}, {BigRes}))

ProviderNext ==
    \/ \E c \in CallIds, in \in ProviderInputs :
          started = 0 /\ FetchTerrain(c, in[2], in[1], FALSE)
    \/ \E c \in CallIds : ChunkResponse(c, TRUE)
    \/ \E c \in CallIds : DelayElapsed(c)

SpecProvider == Init /\ [][ProviderNext]_vars

----------------------------------------------------------------------------
(* Properties of the fetch pipeline *)

KeyOf(call) == getCacheKey(call.config)

\* Call c is a new invocation in this step.
Begins(c) == calls'[c].id # calls[c].id

\* Call c returns to its caller in this step.
Returns(c) == calls'[c].pc = "resolved" /\ (calls[c].pc # "resolved" \/ Begins(c))

\* Call c rejects in this step.
Rejects(c) == calls'[c].pc = "rejected" /\ (calls[c].pc # "rejected" \/ Begins(c))

\* C1: once a fetchTerrain call with useCache has returned a provider's
\* data, a later call with useCache for the same key that starts within the
\* 24 hours after it issues no request, invokes no provider, and returns
\* data tagged "cache", whatever its provider option.
C1_CacheHit ==
    [][\A c \in CallIds :
         LET new == calls'[c]
         IN (/\ Begins(c)
             /\ new.useCache
             /\ KeyOf(new) \in DOMAIN lastLive
             /\ now - lastLive[KeyOf(new)] <= TTL)
            => /\ new.pc = "resolved"
               /\ new.data.source = "cache"
               /\ new.requests = <<>>
               /\ new.invoked = <<>>]_vars

\* A pinned-provider call answered from an entry that is exactly 24 hours old
C1_Witness ==
    \E c \in CallIds :
        /\ calls[c].hit
        /\ calls[c].provider # "auto"
        /\ calls[c].requests = <<>>
        /\ calls[c].data.source = "cache"
        /\ KeyOf(calls[c]) \in DOMAIN lastLive
        /\ calls[c].startedAt - lastLive[KeyOf(calls[c])] = TTL

\* C2: an entry is served only while at most 24 hours have passed since the
\* write that created it, and serving it leaves the store (its timestamp)
\* as it was; the first read after more than 24 hours removes the entry,
\* does not return it, and sends a request to a provider.
C2_Expiry ==
    [][\A c \in CallIds :
         LET new == calls'[c]
             key == KeyOf(new)
         IN /\ (Begins(c) /\ new.hit)
               => /\ key \in DOMAIN store
                  /\ store[key].timestamp = lastLive[key]
                  /\ now - lastLive[key] <= TTL
                  /\ store' = store
            /\ (Begins(c) /\ new.useCache /\ key \in DOMAIN store
                  /\ now - lastLive[key] > TTL)
               => /\ ~new.hit
                  /\ key \notin DOMAIN store'
                  /\ new.pc = "fetch"
                  /\ Len(new.requests) = 1]_vars

\* A read more than 24 hours after the write: the entry is gone and a request is out
C2_Witness ==
    \E c \in CallIds :
        /\ calls[c].useCache /\ ~calls[c].hit /\ calls[c].pc = "fetch"
        /\ KeyOf(calls[c]) \in DOMAIN lastLive
        /\ calls[c].startedAt - lastLive[KeyOf(calls[c])] > TTL
        /\ KeyOf(calls[c]) \notin DOMAIN store

\* C3: when a call with useCache returns a provider's data, the store then
\* holds under the call's key exactly that data (with the provider's tag)
\* stamped with the time of the write; a step that rejects a call writes
\* nothing, and no entry is created or modified by any other step.
C3_WriteBack ==
    [][/\ \A c \in CallIds :
            LET new == calls'[c]
                key == KeyOf(new)
            IN /\ (Returns(c) /\ ~new.hit /\ new.useCache)
                  => /\ key \in DOMAIN store'
                     /\ store'[key].data = new.data
                     /\ store'[key].data.source \in ProviderSet
                     /\ store'[key].data.source = new.cur
                     /\ store'[key].timestamp = now
               /\ Rejects(c) => store' = store
       /\ \A k \in DOMAIN store' :
            (k \notin DOMAIN store \/ store'[k] # store[k])
            => \E c \in CallIds :
                 /\ Returns(c) /\ ~calls'[c].hit /\ calls'[c].useCache
                 /\ KeyOf(calls'[c]) = k]_vars

\* A live result cached with a timestamp later than the start of its call
C3_Witness ==
    \E c \in CallIds :
        /\ calls[c].pc = "resolved" /\ calls[c].wrote
        /\ KeyOf(calls[c]) \in DOMAIN store
        /\ store[KeyOf(calls[c])].timestamp > calls[c].startedAt
        /\ store[KeyOf(calls[c])].data = calls[c].data

\* The providers of a sequence of invocations or of errors
ProvidersOf(seq) == [j \in 1..Len(seq) |-> seq[j].provider]

\* C4: in auto mode the providers are invoked in the order Open Topo Data,
\* Open-Meteo, Open-Elevation, each with the call's config; one is invoked
\* only after all earlier ones have thrown, none after one has returned,
\* and the result carries the tag of the provider that returned.
C4_AutoOrder ==
    \A c \in CallIds :
        LET call == calls[c]
            n == Len(call.invoked)
        IN (call.provider = "auto" /\ call.pc # "idle")
           => /\ ProvidersOf(call.invoked) = SubSeq(Providers, 1, n)
              /\ \A j \in 1..n : call.invoked[j].config = call.config
              /\ call.pc \in {"fetch", "delay"}
                    => ProvidersOf(call.thrown) = SubSeq(Providers, 1, n - 1)
              /\ (call.pc = "resolved" /\ ~call.hit)
                    => /\ ProvidersOf(call.thrown) = SubSeq(Providers, 1, n - 1)
                       /\ call.data.source = call.invoked[n].provider
                       /\ \A j \in 1..Len(call.thrown) :
                             call.thrown[j].provider # call.data.source

\* Open Topo Data threw and Open-Meteo's result was returned
C4_Witness ==
    \E c \in CallIds :
        /\ calls[c].provider = "auto" /\ calls[c].pc = "resolved"
        /\ ProvidersOf(calls[c].thrown) = <<"opentopodata">>
        /\ calls[c].data.source = "openmeteo"

\* Every request the call made has failed: the first two providers threw
\* and every chunk of Open-Elevation failed.
AllRequestsFailed(call) ==
    /\ ProvidersOf(call.thrown) = SubSeq(Providers, 1, 2)
    /\ call.cur = "openelevation"
    /\ call.failedChunks = 0..(NumChunks("openelevation", call.config) - 1)

Finished(call) == call.pc \in {"resolved", "rejected"}

\* C5 as stated: in auto mode, when all the network requests of every
\* provider fail, the call rejects with the last provider's error, returns
\* no data and writes nothing.
C5_AsStated ==
    \A c \in CallIds :
        LET call == calls[c]
        IN (call.provider = "auto" /\ Finished(call) /\ AllRequestsFailed(call))
           => /\ call.pc = "rejected"
              /\ call.error.provider = "openelevation"
              /\ call.data = NoData
              /\ ~call.wrote

\* C5 amended: a call in auto mode never rejects; when all the network
\* requests of every provider fail, Open Topo Data and Open-Meteo have
\* thrown (the last error kept is Open-Meteo's) and the call returns
\* Open-Elevation's grid of zeros, with min 0 and max 100, cached when
\* useCache is set.
C5_AllFail ==
    \A c \in CallIds :
        LET call == calls[c]
        IN call.provider = "auto"
           => /\ call.pc # "rejected"
              /\ (Finished(call) /\ AllRequestsFailed(call))
                 => /\ call.pc = "resolved"
                    /\ call.error = NoError
                    /\ call.lastError.provider = "openmeteo"
                    /\ call.data.source = "openelevation"
                    /\ call.data.elevations = Zeros(NumPoints(call.config))
                    /\ call.data.minElevation = 0
                    /\ call.data.maxElevation = 100
                    /\ call.wrote = call.useCache

\* All requests failed and the grid of zeros went to the cache
C5_Witness ==
    \E c \in CallIds :
        /\ calls[c].provider = "auto" /\ calls[c].pc = "resolved"
        /\ AllRequestsFailed(calls[c])
        /\ calls[c].wrote
        /\ store[KeyOf(calls[c])].data.source = "openelevation"

\* C6: a call with a pinned provider that the cache does not answer invokes
\* that provider once and no other; when the provider throws, the call
\* rejects with that error, without falling back and without a cache write.
C6_Pinned ==
    \A c \in CallIds :
        LET call == calls[c]
        IN (call.provider # "auto" /\ call.pc # "idle" /\ ~call.hit)
           => /\ call.invoked = <<[provider |-> call.provider, config |-> call.config]>>
              /\ \A j \in 1..Len(call.requests) : call.requests[j].provider = call.provider
              /\ Len(call.thrown) <= 1
              /\ call.thrown # <<>>
                   => /\ call.pc = "rejected"
                      /\ call.error = call.thrown[1]
                      /\ call.error.provider = call.provider
                      /\ call.data = NoData
                      /\ ~call.wrote

\* A pinned provider threw and the call rejected
C6_Witness ==
    \E c \in CallIds :
        /\ calls[c].provider = "openmeteo" /\ calls[c].pc = "rejected"
        /\ calls[c].useCache
        /\ calls[c].error.provider = "openmeteo"

----------------------------------------------------------------------------
(* Properties of one provider call *)

\* The cells of chunk i of provider p: indices into elevations, from 1
CellsOf(p, config, i) ==
    (i * ChunkSize(p) + 1)..(i * ChunkSize(p) + ChunkLen(p, config, i))

\* The requests made so far are those of chunks 0, 1, ... in order.
InOrder(requests) == \A j \in 1..Len(requests) : requests[j].chunk = j - 1

\* C7 as stated: in fetchOpenTopoData and fetchOpenMeteo the first failed
\* chunk ends the call with its error and no later chunk is requested; in
\* fetchOpenElevation a failed chunk never ends the call, the cells of
\* every failed chunk hold 0, and a call that returns has requested every
\* chunk.
C7_AsStated ==
    \A c \in CallIds :
        LET call == calls[c]
            p == call.cur
        IN call.pc # "idle"
           => /\ InOrder(call.requests)
              /\ (p # "openelevation" /\ call.thrown # <<>>)
                    => /\ call.pc = "rejected"
                       /\ call.error = call.thrown[1]
                       /\ call.okChunks = 0..(call.i - 1)
                       /\ Len(call.requests) = call.i + 1
              /\ p = "openelevation"
                    => /\ call.pc # "rejected"
                       /\ call.thrown = <<>>
                       /\ \A i \in call.failedChunks :
                             \A j \in CellsOf(p, call.config, i) : call.elevations[j] = 0
                       /\ call.pc = "resolved"
                             => /\ Len(call.requests) = NumChunks(p, call.config)
                                /\ call.data.elevations = call.elevations

\* Fractions <<num, den>> with positive denominators
Leq(a, b) == a[1] * b[2] <= b[1] * a[2]

\* The chunk requests of the call that have been answered
Answered(call) == Len(call.requests) - (IF call.pc = "fetch" THEN 1 ELSE 0)

\* The progress reports between the first (0.1) and the closing one (1.0)
ChunkUpdates(call) == Len(call.progress) - 1 - (IF call.pc = "resolved" THEN 1 ELSE 0)

ProgressShape(call) ==
    /\ call.progress # <<>>
    /\ call.progress[1].value = <<1, 10>>
    /\ \A j \in 1..Len(call.progress) :
          /\ Leq(<<0, 1>>, call.progress[j].value)
          /\ Leq(call.progress[j].value, <<1, 1>>)
          /\ j > 1 => Leq(call.progress[j - 1].value, call.progress[j].value)
    /\ call.pc = "resolved" => call.progress[Len(call.progress)].value = <<1, 1>>

\* C8 as stated: the progress values of a provider call are non-decreasing
\* within [0,1], start with 0.1, end with 1.0 when the call returns, and
\* number one per chunk request answered, failed or not.
C8_AsStated ==
    \A c \in CallIds :
        LET call == calls[c]
        IN call.pc # "idle"
           => /\ ProgressShape(call)
              /\ ChunkUpdates(call) = Answered(call)

\* C8 amended: the progress values of a provider call are non-decreasing
\* within [0,1], start with 0.1 and end with 1.0 when the call returns;
\* one update is reported for every chunk request that succeeded and none
\* for a chunk request that failed.
C8_Progress ==
    \A c \in CallIds :
        LET call == calls[c]
        IN call.pc # "idle"
           => /\ ProgressShape(call)
              /\ ChunkUpdates(call) =
                    Answered(call) - Cardinality(call.failedChunks) - Len(call.thrown)
              /\ ChunkUpdates(call) = Cardinality(call.okChunks)

\* A call that returned after one chunk failed and another succeeded
C8_Witness ==
    \E c \in CallIds :
        /\ calls[c].pc = "resolved"
        /\ calls[c].failedChunks # {} /\ calls[c].okChunks # {}
        /\ Len(calls[c].progress) = 3

\* C9 as stated: a returned grid without a valid sample has minElevation 0
\* and maxElevation 100; otherwise they are the least and the greatest of
\* the valid samples, whatever the null samples.
C9_AsStated ==
    \A c \in CallIds :
        LET call == calls[c]
        IN call.pc = "resolved"
           => IF call.valid = {}
              THEN call.data.minElevation = 0 /\ call.data.maxElevation = 100
              ELSE /\ call.data.minElevation = SetMin(call.valid)
                   /\ call.data.maxElevation = SetMax(call.valid)

\* The chunk requests of the current provider that have been answered
Settled(call) == Cardinality(call.okChunks \cup call.failedChunks) + Len(call.thrown)

\* C17: within a provider call at most one chunk request is in flight: the
\* requests go out in the order of the chunks, and the request for a chunk
\* goes out only when the response for the chunk before it has been
\* received and processed, or has failed.
C17_Sequential ==
    \A c \in CallIds :
        LET call == calls[c]
        IN call.pc # "idle"
           => /\ InOrder(call.requests)
              /\ Len(call.requests) - Settled(call) \in {0, 1}
              /\ (Len(call.requests) - Settled(call) = 1) <=> (call.pc = "fetch")
              /\ call.okChunks \cap call.failedChunks = {}
              /\ \A j \in 2..Len(call.requests) :
                    /\ call.requests[j - 1].chunk \in call.okChunks \cup call.failedChunks
                    /\ call.requests[j - 1].chunk \in call.okChunks
                          => call.offset >= (j - 1) * ChunkSize(call.cur)

\* The second chunk is being fetched after the first was processed
C17_Witness ==
    \E c \in CallIds :
        /\ calls[c].pc = "fetch"
        /\ Len(calls[c].requests) = 2
        /\ calls[c].okChunks = {0}
        /\ calls[c].offset = ChunkSize(calls[c].cur)

\* C18 as stated: in every provider call the provider's delay (1100 ms,
\* 100 ms, 150 ms) elapses between the completion of a chunk request and
\* the next chunk request.
C18_AsStated ==
    \A c \in CallIds :
        LET call == calls[c]
        IN \A j \in 2..Len(call.requests) :
              call.requests[j].provider = call.requests[j - 1].provider
              => call.requests[j].waited = DelayMs(call.requests[j].provider)

\* A cell of the grid, counted from 1: column x of row y
CellAt(config, x, y) == y * config.resolution + x + 1

\* The chunk a cell belongs to
ChunkOfCell(p, idx) == (idx - 1) \div ChunkSize(p)

\* C19 as stated: in the data a provider returns, elevations[y * resolution
\* + x] is the elevation reported for the sample of row y and column x, or
\* 0 when that sample was null or its chunk failed, whatever the outcomes
\* of the chunks.
C19_AsStated ==
    \A c \in CallIds :
        LET call == calls[c]
            res == call.config.resolution
        IN (call.pc = "resolved" /\ ~call.hit)
           => /\ Len(call.data.elevations) = res * res
              /\ \A y \in 0..(res - 1) : \A x \in 0..(res - 1) :
                    LET idx == CellAt(call.config, x, y)
                        value == call.data.elevations[idx]
                    IN \/ value = call.reported[idx]
                       \/ /\ ChunkOfCell(call.cur, idx) \in call.failedChunks
                          /\ value = 0

CameraNext ==
    \/ \E o \in ScrollOffsets : Scroll(o)
    \/ \E k \in DeltaThirds : Frame(k)

InitCamera == FetchInit /\ CameraInit /\ NarrativeIdle /\ UiIdle

SpecCamera == InitCamera /\ [][CameraNext]_vars

----------------------------------------------------------------------------
(* Properties of the camera *)

MinOffset == SetMin({keyframes[j].offset : j \in 1..Len(keyframes)})
MaxOffset == SetMax({keyframes[j].offset : j \in 1..Len(keyframes)})

\* The keyframe of the list with the least (greatest) offset
FirstKeyframe == CHOOSE kf \in {keyframes[j] : j \in 1..Len(keyframes)} : kf.offset = MinOffset
LastKeyframe == CHOOSE kf \in {keyframes[j] : j \in 1..Len(keyframes)} : kf.offset = MaxOffset

PoseOf(kf) ==
    [position |-> Vec(kf.position[1], kf.position[2], kf.position[3]),
     lookAt |-> Vec(kf.target[1], kf.target[2], kf.target[3])]

TargetPose == [position |-> targetPosition, lookAt |-> targetLookAt]

\* An enabled frame is rendered in this step.
Renders == enabled /\ frames' = frames + 1

\* C10 as stated: a frame rendered at a scroll offset below the least
\* keyframe offset leaves the target position and look-at exactly the first
\* keyframe's, and above the greatest keyframe offset exactly the last
\* keyframe's.
C10_AsStated ==
    [][Renders
       => /\ scrollOffset < MinOffset => TargetPose' = PoseOf(FirstKeyframe)
          /\ scrollOffset > MaxOffset => TargetPose' = PoseOf(LastKeyframe)]_vars

\* ease(t) as the specification gives it, and the weighted pose A + w (B - A)
EaseOf(t) ==
    IF RLt(t, <<1, 2>>) THEN <<4 * t[1] * t[1] * t[1], t[2] * t[2] * t[2]>>
    ELSE LET u == <<2 * t[2] - 2 * t[1], t[2]>>
         IN <<2 * u[2] * u[2] * u[2] - u[1] * u[1] * u[1], 2 * u[2] * u[2] * u[2]>>

Weighted(a, b, w) ==
    [j \in 1..3 |-> Norm(<<a[j] * w[2] + w[1] * (b[j] - a[j]), w[2]>>)]

Between(A, B, o) ==
    LET w == EaseOf(<<o - A.offset, B.offset - A.offset>>)
    IN [position |-> Weighted(A.position, B.position, w),
        lookAt |-> Weighted(A.target, B.target, w)]

\* C11: a frame rendered at an offset o between adjacent keyframes A and B
\* (offsets strictly increasing) leaves the target pose A + ease(t) (B - A)
\* per component, t = (o - A.offset) / (B.offset - A.offset); so exactly A's
\* pose at A.offset, exactly B's at B.offset, the midpoint at t = 1/2, and
\* the weight 1/16 at t = 1/4.
C11_Eased ==
    [][Renders
       => \A i \in 1..(Len(sortedKeyframes) - 1) :
            LET A == sortedKeyframes[i]
                B == sortedKeyframes[i + 1]
                o == scrollOffset
                t == <<o - A.offset, B.offset - A.offset>>
            IN (A.offset < B.offset /\ A.offset <= o /\ o <= B.offset)
               => /\ TargetPose' = Between(A, B, o)
                  /\ o = A.offset => TargetPose' = PoseOf(A)
                  /\ o = B.offset => TargetPose' = PoseOf(B)
                  /\ 2 * t[1] = t[2]
                       => TargetPose' = Between(A, B, o)
                          /\ \A j \in 1..3 :
                               targetPosition'[j] =
                                 Norm(<<A.position[j] + B.position[j], 2>>)
                  /\ 4 * t[1] = t[2]
                       => \A j \in 1..3 :
                            targetPosition'[j] =
                              Norm(<<15 * A.position[j] + B.position[j], 16>>)]_vars

\* A frame at the quarter point between KA and KB: the weight is 1/16
C11_Witness ==
    /\ enabled /\ frames > 0 /\ scrollOffset = 3
    /\ Len(keyframes) > 1
    /\ targetPosition = <<<<1, 4>>, <<31, 8>>, <<8, 1>>>>

\* The offset of the displayed position from a target, per component
Gap(position, target) == [j \in 1..3 |-> RSub(position[j], target[j])]

----------------------------------------------------------------------------
(* Properties of the narrative overlay *)

NarrativeNext == \E p \in 0..ScrollSteps : ScrollTo(p)

InitNarrative == FetchInit /\ CameraIdle /\ NarrativeInit /\ UiIdle

SpecNarrative == InitNarrative /\ [][NarrativeNext]_vars

Holds(section, p) == section.scrollStart <= p /\ p <= section.scrollEnd

\* C13 as stated: for a section with scrollStart < scrollEnd,
\* getSectionProgress is 0 at scrollStart and at scrollEnd, 1 at the
\* midpoint, 0 outside the range, and always within [0,1]; the panel shown
\* is given that value.
C13_AsStated ==
    \A j \in 1..Len(sections) :
        LET s == sections[j]
            p == scrollProgress
            v == getSectionProgress(s, p)
        IN s.scrollStart < s.scrollEnd
           => /\ v[2] > 0 /\ 0 <= v[1] /\ v[1] <= v[2]
              /\ (p = s.scrollStart \/ p = s.scrollEnd) => v = R(0)
              /\ 2 * p = s.scrollStart + s.scrollEnd => v = R(1)
              /\ ~Holds(s, p) => v = R(0)
              /\ panel.shown = <<s.id>> => panel.progress = v

\* C14: at every scroll progress at most one panel is rendered: that of the
\* first section in list order whose closed range holds the progress, also
\* when several ranges overlap; none when no range holds it.
C14_OnePanel ==
    LET hits == {j \in 1..Len(sections) : Holds(sections[j], scrollProgress)}
    IN /\ Len(panel.shown) <= 1
       /\ hits = {} => panel.shown = <<>>
       /\ \A j \in hits :
             (\A i \in hits : j <= i) => panel.shown = <<sections[j].id>>

\* Three ranges hold the progress and the first of the list is shown
C14_Witness ==
    /\ sections = <<S3, S2, S1>>
    /\ scrollProgress = 8
    /\ panel.shown = <<"ridge">>

----------------------------------------------------------------------------
(* The cache on a store that fails, is shared with other code, or is cleared *)

StorageModes == {"ok", "unavailable", "full"}

TheConfig == CHOOSE config \in ConfigsOf({6000004}, {SmallRes}) : TRUE

CookieKey == <<"cookie-consent">>
UnitsKey == <<"terrain-", "units">>

Foreign == [k \in {CookieKey} |-> [text |-> "accepted"]]

\* The stores a page may start with
StoreInits ==
    { <<>>, Foreign,
      SetItem(Foreign, getCacheKey(TheConfig), Garbage),
      SetItem(Foreign, UnitsKey, [text |-> "metric"]) }

InitStore ==
    /\ now = 0
    /\ store \in StoreInits
    /\ storage \in StorageModes
    /\ calls = [c \in {1} |-> IdleCall]
    /\ started = 0
    /\ lastLive = <<>>
    /\ CameraIdle
    /\ NarrativeIdle
    /\ UiIdle

StoreNext ==
    \/ \E c \in CallIds, provider \in Options, useCache \in BOOLEAN :
          FetchTerrain(c, TheConfig, provider, useCache)
    \/ \E c \in CallIds : ChunkResponse(c, FALSE)
    \/ \E c \in CallIds : DelayElapsed(c)
    \/ ClearTerrainCache

SpecStore == InitStore /\ [][StoreNext]_vars

\* The read of the cache fails for the call that begins in this step.
ReadFails(key) ==
    \/ storage = "unavailable"
    \/ key \in DOMAIN store /\ store[key] = Garbage

\* C15: no failure of the cache reaches the caller of fetchTerrain: with
\* the store unavailable or unparseable text under the key the read is a
\* miss and a provider is queried; a write that fails leaves the store as
\* it was and the provider's result is returned all the same; a call
\* rejects only with the error of a provider.
C15_CacheFaults ==
    [][\A c \in CallIds :
         LET new == calls'[c]
             key == KeyOf(new)
         IN /\ (Begins(c) /\ new.useCache /\ ReadFails(key))
               => /\ ~new.hit
                  /\ new.pc = "fetch"
                  /\ Len(new.invoked) = 1 /\ Len(new.requests) = 1
                  /\ store' = store
            /\ (Returns(c) /\ ~new.hit /\ new.useCache /\ storage # "ok")
               => /\ store' = store
                  /\ new.data.source = new.cur
                  /\ new.data.elevations = new.elevations
                  /\ Len(new.data.elevations) = NumPoints(new.config)
            /\ (Returns(c) /\ ~new.hit /\ new.useCache /\ storage = "ok")
               => store'[key].data = new.data
            /\ Rejects(c)
               => /\ new.error.provider \in ProviderSet
                  /\ new.error.kind \in {"network", "http", "invalid", "type"}]_vars

\* A result returned although the store is full and holds unparseable text
\* under the key
C15_Witness ==
    \E c \in CallIds :
        /\ storage = "full"
        /\ calls[c].pc = "resolved" /\ calls[c].useCache /\ ~calls[c].hit
        /\ calls[c].data.source \in ProviderSet
        /\ KeyOf(calls[c]) \in DOMAIN store
        /\ store[KeyOf(calls[c])] = Garbage

----------------------------------------------------------------------------
(* Which configs share a cache entry *)

KeyConfigs ==
    [lat : {-4, 4, 6}, lng : {-12000000}, zoom : {12, 13}, tileSize : {256, 512},
     areaKm : {10, 20}, resolution : {SmallRes}]

KeysNext ==
    \/ \E c \in CallIds, config \in KeyConfigs, provider \in {"opentopodata", "auto"} :
          FetchTerrain(c, config, provider, TRUE)
    \/ \E c \in CallIds : ChunkResponse(c, FALSE)
    \/ \E c \in CallIds : DelayElapsed(c)

SpecKeys == Init /\ [][KeysNext]_vars

\* A coordinate counted in 1e-5 rounded to 4 decimal places, counted in 1e-4
Round4(x) == IF x >= 0 THEN (x + 5) \div 10 ELSE -((5 - x) \div 10)

SameRounded(a, b) ==
    /\ Round4(a.lat) = Round4(b.lat)
    /\ Round4(a.lng) = Round4(b.lng)
    /\ a.areaKm = b.areaKm
    /\ a.resolution = b.resolution

\* C20 as stated: a call reads the entry that the call before it wrote if
\* and only if the two configs agree in latitude and longitude rounded to 4
\* decimal places, in areaKm and in resolution; zoom, tileSize and the
\* provider option play no part.
C20_AsStated ==
    [][\A c \in CallIds :
         LET old == calls[c]
             new == calls'[c]
         IN (Begins(c) /\ old.pc = "resolved" /\ old.wrote
               /\ DOMAIN store = {KeyOf(old)})
            => (new.hit <=> SameRounded(old.config, new.config))]_vars

----------------------------------------------------------------------------
(* Overlapping fetchTerrain calls *)

\* Two callers (two mounted terrains, say) may each have a call in progress.
ConcurrentInit ==
    /\ now = 0
    /\ store = <<>>
    /\ storage = "ok"
    /\ calls = [c \in {1, 2} |-> IdleCall]
    /\ started = 0
    /\ lastLive = <<>>

InitConcurrent == ConcurrentInit /\ CameraIdle /\ NarrativeIdle /\ UiIdle

ConcurrentNext ==
    \/ \E c \in CallIds, provider \in {"openmeteo", "openelevation"} :
          FetchTerrain(c, TheConfig, provider, TRUE)
    \/ \E c \in CallIds : ChunkResponse(c, FALSE)
    \/ \E c \in CallIds : DelayElapsed(c)
    \/ Tick(1)

SpecConcurrent == InitConcurrent /\ [][ConcurrentNext]_vars

InFlight(call) == call.pc \in {"fetch", "delay"}

\* The call whose promise settled last among two
LastOf(c, d) == IF calls[c].doneSeq > calls[d].doneSeq THEN c ELSE d

\* After a step, any two calls that both wrote the key have left in the store
\* the entry of the one that settled last.
LastWriterWins ==
    \A c, d \in CallIds :
        (/\ c # d
         /\ calls[c].pc = "resolved" /\ calls[c].wrote
         /\ calls[d].pc = "resolved" /\ calls[d].wrote
         /\ KeyOf(calls[c]) = KeyOf(calls[d]))
        => /\ KeyOf(calls[c]) \in DOMAIN store
           /\ store[KeyOf(calls[c])].data = calls[LastOf(c, d)].data

\* C21: a fetchTerrain call with useCache that starts while another call with
\* useCache for the same key is in flight and nothing is cached under the key
\* misses the cache and sends its own request to a provider, leaving the
\* other call as it is; and once two such calls have both returned, the store
\* holds under the key the data of the call that returned last.
C21_Overlap ==
    [][/\ \A c, d \in CallIds :
            (/\ c # d
             /\ Begins(c) /\ calls'[c].useCache
             /\ InFlight(calls[d]) /\ calls[d].useCache
             /\ KeyOf(calls[d]) = KeyOf(calls'[c])
             /\ KeyOf(calls[d]) \notin DOMAIN store)
            => /\ ~calls'[c].hit
               /\ calls'[c].pc = "fetch"
               /\ Len(calls'[c].requests) = 1
               /\ calls'[d] = calls[d]
               /\ store' = store
       /\ LastWriterWins']_vars

\* Two overlapping calls returned different data, the one started first
\* returning last, and the store holds its data.
C21_Witness ==
    \E c, d \in CallIds :
        /\ calls[c].pc = "resolved" /\ calls[c].wrote
        /\ calls[d].pc = "resolved" /\ calls[d].wrote
        /\ calls[c].id < calls[d].id
        /\ calls[c].doneSeq > calls[d].doneSeq
        /\ calls[c].data # calls[d].data
        /\ store[KeyOf(calls[c])].data = calls[c].data

----------------------------------------------------------------------------
(* ScrollDrivenCamera rendered again with other keyframes *)

\* A keyframe with the offset of KA
KD == Keyframe(2, <<8, 0, 0>>, <<0, 2, 0>>, TRUE, 70)

\* The arrays a parent passes in later renders
PropLists ==
    { <<KA, KB>>, <<KB, KA>>, <<KA, KC>>, <<KC, KA>>, <<KA, KD, KC>>, <<KD, KA, KC>> }

KeyframesNext ==
    \/ \E o \in {2, 4, 7} : Scroll(o)
    \/ Frame(1)
    \/ \E kfs \in PropLists : Rerender(kfs)

SpecKeyframes == InitCamera /\ [][KeyframesNext]_vars

DistinctOffsets(kfs) ==
    \A i, j \in 1..Len(kfs) : i # j => kfs[i].offset # kfs[j].offset

\* The arrays with the elements of kfs in any order
PermutationsOf(kfs) ==
    {[i \in 1..Len(kfs) |-> kfs[f[i]]] : f \in Permutations(1..Len(kfs))}

\* The target pose a frame computes when the component was given kfs
PoseFrom(kfs) ==
    LET pose == interpolateKeyframes(SortCopy(kfs).sorted, scrollOffset, camera.fov)
    IN [position |-> pose.position, lookAt |-> pose.lookAt]

\* C22 as stated: the target pose of a rendered frame is the one computed
\* from any permutation of the keyframe list, and the caller's array stays
\* as the caller built it.
C22_AsStated ==
    [][/\ Renders => \A p \in PermutationsOf(keyframes) : PoseFrom(p) = TargetPose'
       /\ keyframes' = given']_vars

\* C22: when the offsets of the keyframes are pairwise different, the target
\* pose of a rendered frame is the one computed from any permutation of the
\* keyframe list; and the caller's array always stays as the caller built it.
C22_Permutations ==
    [][/\ (Renders /\ DistinctOffsets(keyframes))
          => \A p \in PermutationsOf(keyframes) : PoseFrom(p) = TargetPose'
       /\ keyframes' = given']_vars

\* A frame was rendered from an array that is not in ascending order
C22_Witness ==
    /\ enabled /\ frames > 0
    /\ DistinctOffsets(keyframes)
    /\ keyframes # SortByOffset(keyframes)
    /\ keyframes = given
    /\ TargetPose = PoseFrom(SortByOffset(keyframes))
    /\ targetPosition # Vec(0, 0, 0)

Fresh == <<Vec(0, 0, 0), Vec(0, 0, 0)>>

\* C23 as stated: when the component is given another keyframe list, the
\* smoothed position and look-at point left by the frames rendered so far
\* are not kept: they are new vectors or have been set to something else.
C23_AsStated ==
    [][(given' # given /\ <<currentPosition, currentTarget>> # Fresh)
       => \/ <<currentPosition', currentTarget'>> = Fresh
          \/ <<currentPosition', currentTarget'>> # <<currentPosition, currentTarget>>]_vars

\* The fov the bracketing keyframes give at the scroll offset
TargetFov ==
    LET r == findKeyframeRange(sortedKeyframes, scrollOffset)
    IN lerp(R(r.before.fov), R(r.after.fov),
            easeInOutCubic(LocalT(r.before, r.after, scrollOffset)))

BothFov ==
    LET r == findKeyframeRange(sortedKeyframes, scrollOffset)
    IN r.before.hasFov /\ r.after.hasFov

\* C24 as stated: a rendered frame sets the camera's fov to the eased
\* interpolation of the bracketing keyframes' fovs when both define one, and
\* leaves it unchanged otherwise.
C24_AsStated ==
    [][Renders => camera'.fov = IF BothFov THEN TargetFov ELSE camera.fov]_vars

\* C24: a rendered frame moves the camera's fov one tenth of the way from its
\* value to the eased interpolation of the bracketing keyframes' fovs when
\* both define one, and leaves it unchanged otherwise.
C24_Fov ==
    [][Renders
       => camera'.fov = IF BothFov
                        THEN RAdd(camera.fov, RMul(RSub(TargetFov, camera.fov), <<1, 10>>))
                        ELSE camera.fov]_vars

\* A frame between two keyframes with fovs 50 and 60 left a fov in between
C24_Witness ==
    /\ enabled /\ frames > 0
    /\ given \in {<<KA, KC>>, <<KC, KA>>}
    /\ BothFov
    /\ RLt(R(50), camera.fov) /\ RLt(camera.fov, TargetFov)

----------------------------------------------------------------------------
(* RealWorldTerrain *)

\* The request props of a render: lat, lng, areaKm, resolution, apiProvider,
\* useCache (zoom 12 and tileSize 512 are fixed by fetchData)
Requests ==
    [config : ConfigsOf(Lats, {SmallRes}), provider : {"openmeteo", "openelevation"},
     useCache : {FALSE}]

\* The effect runs after a render whose request props differ from those of
\* the render before: fetchData up to its await, in call slot c.
FetchData(c, req) ==
    /\ req # request
    /\ c \notin awaiting
    /\ Invoke(c, req.config, req.provider, req.useCache)
    /\ request' = req
    /\ loading' = TRUE
    /\ error' = NoError
    /\ loadingProgress' = LastProgress(calls'[c], <<0, 1>>)
    /\ awaiting' = awaiting \cup {c}
    /\ latest' = c
    /\ UNCHANGED elevationData
    /\ UNCHANGED <<homeVars, sceneVars>>

\* fetchData continues after its await: the try, catch and finally blocks.
Continue(c) ==
    /\ c \in awaiting
    /\ calls[c].pc \in {"resolved", "rejected"}
    /\ elevationData' = IF calls[c].pc = "resolved" THEN calls[c].data ELSE elevationData
    /\ error' = IF calls[c].pc = "rejected" THEN calls[c].error ELSE error
    /\ loading' = FALSE
    /\ awaiting' = awaiting \ {c}
    /\ UNCHANGED <<request, loadingProgress, latest>>
    /\ UNCHANGED <<homeVars, sceneVars>>
    /\ UNCHANGED fetchVars
    /\ UNCHANGED camVars
    /\ UNCHANGED narVars

TerrainNext ==
    \/ \E c \in CallIds, req \in Requests : FetchData(c, req)
    \/ \E c \in CallIds : ChunkResponse(c, FALSE)
    \/ \E c \in CallIds : DelayElapsed(c)
    \/ \E c \in CallIds : Continue(c)

SpecTerrain == InitConcurrent /\ [][TerrainNext]_vars

\* C25 as stated: once no fetch of the component is in flight, what it
\* shows is the outcome of the fetch started last, for the latest props
\* (its data and no error, or its error); and loading is false only when no
\* fetch is in flight.
C25_AsStated ==
    /\ (awaiting = {} /\ latest # 0)
       => /\ calls[latest].config = request.config
          /\ calls[latest].pc = "resolved"
                => elevationData = calls[latest].data /\ error = NoError
          /\ calls[latest].pc = "rejected" => error = calls[latest].error
    /\ ~loading => awaiting = {}

----------------------------------------------------------------------------
(* Shape of the returned grid *)

\* C26 as stated: a returned ElevationData has resolution x resolution =
\* width x height elevations, minElevation <= maxElevation, and every
\* elevation within [minElevation, maxElevation].
C26_AsStated ==
    \A c \in CallIds :
        LET call == calls[c]
            data == call.data
        IN call.pc = "resolved"
           => /\ data.width = call.config.resolution
              /\ data.height = call.config.resolution
              /\ Len(data.elevations) = data.width * data.height
              /\ data.minElevation <= data.maxElevation
              /\ \A j \in 1..Len(data.elevations) :
                    /\ data.minElevation <= data.elevations[j]
                    /\ data.elevations[j] <= data.maxElevation

----------------------------------------------------------------------------
(* The cached grid of zeros *)

\* Every provider was tried and every request failed with a network or
\* HTTP error.
AllUnreachable(call) ==
    /\ AllRequestsFailed(call)
    /\ \A j \in 1..Len(call.thrown) : call.thrown[j].kind \in {"network", "http"}

\* What Open-Elevation returns for config when all its chunks failed
ZeroGrid(config) ==
    [elevations |-> Zeros(NumPoints(config)),
     width |-> config.resolution, height |-> config.resolution,
     minElevation |-> 0, maxElevation |-> 100,
     bounds |-> getBoundingBox(config.lat, config.lng, config.areaKm),
     source |-> "openelevation"]

\* C27: an auto call with useCache all of whose requests fail returns
\* Open-Elevation's grid of zeros (min 0, max 100, source 'openelevation')
\* and writes it to the cache; a call with useCache for the same key that
\* starts within 24 hours of it returns that grid as a cache hit, without
\* invoking a provider or sending a request.
C27_ZeroGridCached ==
    [][\A c \in CallIds :
         LET old == calls[c]
             new == calls'[c]
             key == KeyOf(new)
         IN /\ (Returns(c) /\ ~Begins(c) /\ new.provider = "auto" /\ new.useCache
                /\ AllUnreachable(new))
               => /\ new.data = ZeroGrid(new.config)
                  /\ key \in DOMAIN store'
                  /\ store'[key].data = ZeroGrid(new.config)
                  /\ store'[key].timestamp = now
            /\ (Begins(c) /\ new.useCache
                /\ old.pc = "resolved" /\ old.provider = "auto" /\ old.wrote
                /\ AllUnreachable(old)
                /\ KeyOf(old) = key
                /\ key \in DOMAIN lastLive
                /\ now - lastLive[key] <= TTL)
               => /\ new.pc = "resolved" /\ new.hit
                  /\ new.invoked = <<>> /\ new.requests = <<>>
                  /\ new.data = [ZeroGrid(new.config) EXCEPT !.source = "cache"]
                  /\ new.progress = <<[by |-> "cache", value |-> <<1, 1>>]>>]_vars

\* A call answered from the cached grid of zeros after time has passed
C27_Witness ==
    \E c \in CallIds :
        /\ calls[c].hit /\ calls[c].pc = "resolved"
        /\ calls[c].data = [ZeroGrid(calls[c].config) EXCEPT !.source = "cache"]
        /\ store[KeyOf(calls[c])].data = ZeroGrid(calls[c].config)
        /\ calls[c].startedAt > store[KeyOf(calls[c])].timestamp

----------------------------------------------------------------------------
(* Progress across a fallback *)

\* The terrain component asks for a grid of several chunks in auto mode.
FallbackRequests ==
    [config : ConfigsOf({6000004}, {BigRes}), provider : {"auto"}, useCache : {FALSE}]

FallbackNext ==
    \/ \E c \in CallIds, req \in FallbackRequests : FetchData(c, req)
    \/ \E c \in CallIds : ChunkResponse(c, FALSE)
    \/ \E c \in CallIds : DelayElapsed(c)
    \/ \E c \in CallIds : Continue(c)

SpecFallback == Init /\ [][FallbackNext]_vars

NonDecreasing(progress) ==
    \A j \in 2..Len(progress) : Leq(progress[j - 1].value, progress[j].value)

\* C28 as stated: the progress values one fetchTerrain call passes to
\* onProgress never decrease, the loadingProgress shown never decreases
\* while the call runs, and the last value of a call that returned is 1.
C28_AsStated ==
    [][\A c \in CallIds :
         LET new == calls'[c]
         IN /\ NonDecreasing(new.progress)
            /\ (c \in awaiting /\ ~Begins(c)) => Leq(loadingProgress, loadingProgress')
            /\ new.pc = "resolved"
                  => new.progress[Len(new.progress)].value = <<1, 1>>]_vars

----------------------------------------------------------------------------
(* Home: the experience mode *)

\* (variant: the interval keeps running once the progress is full)
LoadTickKeep(prev, inc) ==
    IF prev >= 100
    THEN [progress |-> 100, clear |-> FALSE, schedule |-> TRUE]
    ELSE [progress |-> prev + inc, clear |-> FALSE, schedule |-> FALSE]

\* The updater of setLoadProgress for the previous value prev, with
\* inc = Math.random() * 15: the new value, whether the interval is cleared
\* and whether the timeout for setMode('intro') is set.
LoadTick(prev, inc) ==
    IF prev >= 100
    THEN [progress |-> 100, clear |-> TRUE, schedule |-> TRUE]
    ELSE [progress |-> prev + inc, clear |-> FALSE, schedule |-> FALSE]

\* Values of Math.random() * 15, in whole percent
Increments == {4, 9, 14}

\* Home is mounted: the effect has set the interval.
HomeInit ==
    /\ mode = "loading"
    /\ loadProgress = 0
    /\ intervalOn = TRUE
    /\ introTimers = 0
    /\ features \in [enableScrollytelling : BOOLEAN, enableExploration : BOOLEAN]

HomeFrame ==
    /\ UNCHANGED <<sceneVars, terrainVars>>
    /\ UNCHANGED fetchVars
    /\ UNCHANGED camVars
    /\ UNCHANGED narVars

\* The 200 ms interval fires.
IntervalTick(inc) ==
    /\ intervalOn
    /\ LET tick == LoadTick(loadProgress, inc)
       IN /\ loadProgress' = tick.progress
          /\ intervalOn' = ~tick.clear
          /\ introTimers' = introTimers + (IF tick.schedule THEN 1 ELSE 0)
    /\ UNCHANGED <<mode, features>>
    /\ HomeFrame

\* A 500 ms timeout fires: setMode('intro').
IntroTimeout ==
    /\ introTimers > 0
    /\ introTimers' = introTimers - 1
    /\ mode' = "intro"
    /\ UNCHANGED <<loadProgress, intervalOn, features>>
    /\ HomeFrame

showHero == mode = "intro"

\* The mode switcher is rendered.
showSwitcher == mode \in {"scrollytelling", "exploration"} /\ features.enableExploration

\* The Explore button of the hero overlay is clicked.
handleExplore ==
    /\ showHero
    /\ mode' = IF features.enableScrollytelling THEN "scrollytelling" ELSE "exploration"
    /\ UNCHANGED <<loadProgress, intervalOn, introTimers, features>>
    /\ HomeFrame

\* A button of the mode switcher is clicked: Story (shown with
\* enableScrollytelling) or Explore.
ModeSwitcher(target) ==
    /\ showSwitcher
    /\ target = "scrollytelling" => features.enableScrollytelling
    /\ mode' = target
    /\ UNCHANGED <<loadProgress, intervalOn, introTimers, features>>
    /\ HomeFrame

\* The call to action of a narrative section is clicked, with the action
\* 'explore' (the other actions leave the mode alone).
handleCtaClick ==
    /\ mode = "scrollytelling"
    /\ mode' = "exploration"
    /\ UNCHANGED <<loadProgress, intervalOn, introTimers, features>>
    /\ HomeFrame

HomeNext ==
    \/ \E inc \in Increments : IntervalTick(inc)
    \/ IntroTimeout
    \/ handleExplore
    \/ \E target \in {"scrollytelling", "exploration"} : ModeSwitcher(target)
    \/ handleCtaClick

InitHome == FetchInit /\ CameraIdle /\ NarrativeIdle /\ HomeInit /\ SceneIdle /\ TerrainIdle

SpecHome == InitHome /\ [][HomeNext]_vars

\* C29: the mode leaves 'loading' only for 'intro' and only when the load
\* progress has reached 100; it leaves 'intro' only for 'scrollytelling'
\* (with enableScrollytelling) or 'exploration' (without); from
\* 'scrollytelling' or 'exploration' it only moves between these two; the
\* mode is 'loading' as long as the progress is below 100 or the interval is
\* set; and the hero overlay is shown exactly when the mode is 'intro'.
C29_Modes ==
    [][/\ (mode = "loading" /\ mode' # mode)
          => mode' = "intro" /\ loadProgress = 100
       /\ (mode = "intro" /\ mode' # mode)
          => mode' = (IF features.enableScrollytelling
                      THEN "scrollytelling" ELSE "exploration")
       /\ mode \in {"scrollytelling", "exploration"}
          => mode' \in {"scrollytelling", "exploration"}
       /\ (loadProgress' < 100 \/ intervalOn') => mode' = "loading"
       /\ showHero' <=> mode' = "intro"]_vars

\* Past the intro, in exploration after the story, with no timer left
C29_Witness ==
    /\ mode = "exploration"
    /\ features.enableScrollytelling
    /\ loadProgress = 100 /\ ~intervalOn /\ introTimers = 0

----------------------------------------------------------------------------
(* TerrainScene: marker selection *)

\* setTimeout(() => setIsAnimating(false), 2000)
ResetMs == 2000

Locations == {"villa", "spa"}

SceneFrame ==
    /\ UNCHANGED <<homeVars, terrainVars>>
    /\ UNCHANGED <<store, storage, calls, started, lastLive>>
    /\ UNCHANGED camVars
    /\ UNCHANGED narVars

\* A marker is clicked: handleLocationSelect(location).
handleLocationSelect(location) ==
    /\ Len(timers) < MaxTimers
    /\ selectedLocation' = location
    /\ isAnimating' = TRUE
    /\ timers' = Append(timers, now + ResetMs)
    /\ lastSelect' = now
    /\ UNCHANGED now
    /\ SceneFrame

\* The oldest reset timer is due and fires: setIsAnimating(false).
ResetTimer ==
    /\ timers # <<>>
    /\ Head(timers) <= now
    /\ timers' = Tail(timers)
    /\ isAnimating' = FALSE
    /\ UNCHANGED <<selectedLocation, lastSelect, now>>
    /\ SceneFrame

\* Time passes.
Elapse(ms) ==
    /\ now + ms <= HorizonMs
    /\ now' = now + ms
    /\ UNCHANGED sceneVars
    /\ SceneFrame

\* OrbitControls' enabled prop
ControlsEnabled(isExploring) == isExploring /\ ~isAnimating

SceneNext ==
    \/ \E location \in Locations : handleLocationSelect(location)
    \/ ResetTimer
    \/ \E ms \in {500, 1000} : Elapse(ms)

SpecScene == Init /\ [][SceneNext]_vars

\* C30 as stated: while less than 2000 ms have passed since the last marker
\* selection, isAnimating is true and the orbit controls are disabled.
C30_AsStated ==
    (lastSelect >= 0 /\ now - lastSelect < ResetMs)
    => /\ isAnimating
       /\ \A isExploring \in BOOLEAN : ~ControlsEnabled(isExploring)

====
